---- MODULE Spec2Model ----
(***************************************************************************)
(* Odyssey framed stream (sources/io.h): od_io_read over a readahead       *)
(* buffer, a condition (on_read) and a non-blocking machine I/O handle,    *)
(* and the protocol framer od_read / od_read_startup built on it.          *)
(*                                                                         *)
(* One coroutine issues a bounded sequence of calls on one stream.  The    *)
(* peer delivers the bytes of `wire` to the socket one at a time, at any   *)
(* moment, and may close or reset the connection.  od_io_read is cut at    *)
(* its suspension point (machine_cond_wait) and at its system call         *)
(* (machine_read_raw), the two places where the environment is observed.   *)
(***************************************************************************)
EXTENDS Integers, Sequences, FiniteSets, TLC

\* ------------------------------------------------------------------ bounds
MaxCap == 3
MaxFramerCap == 8
WireLen == 4
MaxCalls == 2
MaxN == 3
TmoMs == 2
MaxIntr == 1
MaxStreams == 2
MaxTimers == 3
MaxTime == 2
MaxInterval == 2
MaxSeq == 3
MaxCo == 2
MaxCond == 2
Pairs == 2
Chunks == 2
PipeCap == 1

\* UINT32_MAX as a timeout means "no timeout" (io.h:245 passes it to machine_write);
\* written as the 32-bit pattern of all ones read as an int
UINT32_MAX == -1

Min(a, b) == IF a < b THEN a ELSE b

Max(a, b) == IF a > b THEN a ELSE b

\* ------------------------------------------------------------------ inputs
\* Byte streams the peer may send: a stream of distinct bytes, ordinary
\* messages (type, big-endian length, payload) and startup packets.  Every
\* byte is below 128, so that a length field fits a signed 32-bit integer.
Wires ==
  { <<81, 0, 0, 0, 5, 9>>,                  \* 'Q' length 5, payload 09
    <<67, 0, 0, 0, 4, 81, 0, 0, 0, 5, 9>>,  \* 'C' length 4, then 'Q' length 5
    <<68, 0, 16, 0, 0, 7>>,                 \* 'D' length 1 MiB (payload cut short)
    <<67, 0, 16, 0, 0>>,                    \* 'C' length 1 MiB
    <<69, 0, 0, 0, 3>>,                     \* 'E' length 3
    <<16, 0, 0, 0, 5, 0>>,                  \* type 0x10
    <<67, 0, 0, 117, 48, 7>>,               \* 'C' length 30000
    <<67, 0, 0, 117, 49>>,                  \* 'C' length 30001
    <<0, 0, 0, 8, 0, 3, 0, 0>>,             \* startup packet, protocol 3.0
    <<0, 0, 0, 3>> }                        \* startup packet with length 3

\* a stream of distinct bytes
Stream == [i \in 1..WireLen |-> i]

\* readahead capacities the framer is run with: one header, and more
FramerCaps == {5, MaxFramerCap}

Timeouts == {0, TmoMs, UINT32_MAX}

VARIABLES
  wire,          \* the bytes the peer sends, in order
  sent,          \* how many of them have reached the socket
  sock,          \* "open" | "eof" (peer closed) | "reset"
  rpos,          \* bytes taken from the socket by machine_read_raw
  readahead,     \* od_readahead_t: [size, pos, pos_read, buf]
  signaled,      \* on_read condition: a signal is pending
  armed,         \* the handle is in the poller's interest set (read_start)
  errno_,        \* the thread's errno
  intr,          \* EINTR results delivered so far
  pc,            \* position of the coroutine inside od_io_read
  size,          \* od_io_read: bytes still to copy
  dpos,          \* od_io_read: pos, offset in dest
  read_started,  \* od_io_read: read_started
  dest,          \* od_io_read: bytes copied to dest so far
  time_ms,       \* od_io_read: time_ms
  rc,            \* od_io_read: return value once pc = "ret"
  op,            \* the caller: "none" | "io" | "read" | "startup"
  phase,         \* od_read / od_read_startup: "hdr" | "payload" | "done"
  header,        \* od_read / od_read_startup: the header read
  msg,           \* message returned (<<>> when NULL)
  outcome,       \* how the last od_read / od_read_startup ended
  calls,         \* calls issued so far
  hist,          \* history of the current od_io_read call and of the stream
  od_io,         \* od_io_t of each framed stream: readahead, on_read, on_write, io
  heap,          \* the objects the streams point to, and whether they are alive
  freed,         \* history of od_io_free: the handle as it was before the call
  clock,         \* mm_clock_t: [timers, timers_count, timers_seq, time]
  timer,         \* mm_timer_t of each timer: [timeout, seq, active]
  clk,           \* history of the clock: the last operation and what it did
  sched,         \* a worker's scheduler: [current, runnable]
  co,            \* its coroutines: [state, on, result]
  cond,          \* its conditions: [signaled, waiter]
  sk,            \* history of the conditions
  worker,        \* the workers of the multithread test and their coroutines
  port,          \* the loopback ports: listener and connection of each
  host           \* the test's main thread

ioVars == <<wire, sent, sock, rpos, readahead, signaled, armed, errno_, intr, pc,
            size, dpos, read_started, dest, time_ms, rc, op, phase, header, msg,
            outcome, calls, hist>>

lifeVars == <<od_io, heap, freed>>
clockVars == <<clock, timer, clk>>
schedVars == <<sched, co, cond, sk>>
testVars == <<worker, port, host>>

\* everything outside the stream that od_io_read and the framer run on
extVars == <<lifeVars, clockVars, schedVars, testVars>>

vars == <<ioVars, extVars>>

sockVars == <<wire, sent, sock, rpos>>
callerVars == <<op, phase, header, msg, outcome, calls>>
ioLocals == <<size, dpos, read_started, dest, time_ms, rc>>

\* ------------------------------------------------------------ readahead
od_readahead_unread(ra) == ra.pos - ra.pos_read

od_readahead_left(ra) == ra.size - ra.pos

od_readahead_reuse(ra) == [ra EXCEPT !.pos = 0, !.pos_read = 0, !.buf = <<>>]

od_readahead_pos_read_advance(ra, n) == [ra EXCEPT !.pos_read = @ + n]

od_readahead_pos_advance(ra, bytes) ==
  [ra EXCEPT !.pos = @ + Len(bytes), !.buf = @ \o bytes]

\* the to_read bytes at od_readahead_pos_read
od_readahead_bytes(ra, n) == SubSeq(ra.buf, ra.pos_read + 1, ra.pos_read + n)

\* ------------------------------------------------------------------ Init
Start ==
  /\ sent = 0
  /\ sock = "open"
  /\ rpos = 0
  /\ signaled = FALSE
  /\ armed = FALSE
  /\ pc = "idle"
  /\ size = 0
  /\ dpos = 0
  /\ read_started = FALSE
  /\ dest = <<>>
  /\ time_ms = 0
  /\ rc = 0
  /\ op = "none"
  /\ phase = "done"
  /\ header = <<>>
  /\ msg = <<>>
  /\ outcome = "none"
  /\ calls = 0
  /\ hist = [n0 |-> 0, taken |-> 0, taken0 |-> 0, optaken0 |-> 0, waited |-> 0,
             cause |-> "none", stopped |-> FALSE, unread0 |-> 0,
             starved |-> FALSE, reuse_unread |-> 0, alloc |-> FALSE, reserve |-> 0,
             signals |-> 0, filled |-> FALSE]

\* od_readahead_prepare(&io->readahead, c), io.h:52
od_readahead_prepare(c) == [size |-> c, pos |-> 0, pos_read |-> 0, buf |-> <<>>]

\* ------------------------------------------- the runtime, as constructed
\* framed streams; stream s is given the machine I/O handle s
StreamIds == 1..MaxStreams

\* no object (a NULL pointer)
NULL == 0

\* the conditions machine_cond_create hands to stream s
OnRead(s) == 2 * s - 1
OnWrite(s) == 2 * s
CondObjs == 1..(2 * MaxStreams)

LifeStart ==
  /\ od_io = [s \in StreamIds |->
               [stage |-> "new", readahead |-> "none", on_read |-> NULL,
                on_write |-> NULL, io |-> NULL, prepared |-> "none", read |-> "none"]]
  /\ heap = [handle |-> [s \in StreamIds |->
                          [closed |-> FALSE, freed |-> FALSE, armed |-> FALSE]],
             cond |-> [c \in CondObjs |-> "none"]]
  /\ freed = [s \in StreamIds |-> [handle |-> heap.handle[s], io |-> NULL]]

TimerIds == 1..MaxTimers

\* a timer that is in no clock; its deadline and seq are read by no one and
\* are kept at zero
TimerOff == [deadline_ms |-> 0, seq |-> 0, active |-> FALSE]

\* mm_clock_init (mm_clock.h:19): no timers, sequence and time at zero
mm_clock_init == [timers |-> <<>>, timers_count |-> 0, timers_seq |-> 0, time |-> 0]

ClockStart ==
  /\ clock = mm_clock_init
  /\ timer = [t \in TimerIds |-> TimerOff]
  /\ clk = [op |-> "none", arg |-> 0, before |-> {}, fired |-> <<>>, ret |-> 0,
            seqs |-> <<>>]

CoIds == 1..MaxCo
CondIds == 1..MaxCond

\* a worker whose coroutines have all been created and none has run yet
SchedStart ==
  /\ sched = [current |-> 0, runnable |-> [i \in CoIds |-> i]]
  /\ co = [i \in CoIds |-> [state |-> "runnable", on |-> 0, result |-> "none"]]
  /\ cond = [c \in CondIds |-> [signaled |-> FALSE, waiter |-> 0]]
  /\ sk = [sigs |-> [c \in CondIds |-> 0], chain |-> [c \in CondIds |-> 0]]

\* test_tls_read_multithread.c:143: port[i] = i + 7778
PortOf_same(i) == 7778

PortOf(i) == i + 7778

\* the workers are numbered as the test's loop numbers them
WorkerIds == 0..(Pairs - 1)
Ports == {PortOf(i) : i \in WorkerIds}

TestStart ==
  /\ worker = [w \in WorkerIds |->
                [created |-> FALSE, main |-> "new", run |-> <<>>, server |-> "none",
                 client |-> "none", pos |-> 0, got |-> <<>>, exited |-> FALSE]]
  /\ port = [p \in Ports |->
              [bound |-> FALSE, listen |-> FALSE, syn |-> FALSE, hello |-> FALSE,
               reply |-> FALSE, pipe |-> <<>>, closed |-> FALSE]]
  /\ host = [i |-> 0, j |-> 0, failed |-> FALSE]

ExtStart == LifeStart /\ ClockStart /\ SchedStart /\ TestStart

\* a prepared stream over a socket that will carry distinct bytes
Init ==
  /\ wire = Stream
  /\ readahead \in {od_readahead_prepare(c) : c \in 1..MaxCap}
  /\ errno_ \in {"none", "EAGAIN"}
  /\ intr = 0
  /\ Start
  /\ ExtStart

\* a prepared stream over a socket that will carry protocol traffic; no
\* signal interrupts the raw reads of these runs
InitFramer ==
  /\ wire \in Wires
  /\ readahead \in {od_readahead_prepare(c) : c \in FramerCaps}
  /\ errno_ = "none"
  /\ intr = MaxIntr
  /\ Start
  /\ ExtStart

\* one idle prepared stream; the runtime around it as constructed
InitRuntime ==
  /\ wire = Stream
  /\ readahead = od_readahead_prepare(MaxCap)
  /\ errno_ = "none"
  /\ intr = 0
  /\ Start
  /\ ExtStart

\* ------------------------------------------------------------------ peer
\* The scheduler's poller signals on_read when bytes (or a close) arrive on
\* a handle armed by read_start.
PollerSignal == IF armed THEN TRUE ELSE signaled

PeerSend ==
  /\ sock = "open"
  /\ sent < Len(wire)
  /\ sent' = sent + 1
  /\ signaled' = PollerSignal
  /\ hist' = [hist EXCEPT !.starved = FALSE]
  /\ UNCHANGED <<wire, sock, rpos, readahead, armed, errno_, intr, pc>>
  /\ UNCHANGED <<ioLocals, callerVars>>
  /\ UNCHANGED extVars

PeerClose ==
  /\ sock = "open"
  /\ sock' = "eof"
  /\ signaled' = PollerSignal
  /\ hist' = [hist EXCEPT !.starved = FALSE]
  /\ UNCHANGED <<wire, sent, rpos, readahead, armed, errno_, intr, pc>>
  /\ UNCHANGED <<ioLocals, callerVars>>
  /\ UNCHANGED extVars

PeerReset ==
  /\ sock = "open"
  /\ sock' = "reset"
  /\ signaled' = PollerSignal
  /\ hist' = [hist EXCEPT !.starved = FALSE]
  /\ UNCHANGED <<wire, sent, rpos, readahead, armed, errno_, intr, pc>>
  /\ UNCHANGED <<ioLocals, callerVars>>
  /\ UNCHANGED extVars

\* ------------------------------------------------------------ od_io_read
\* io.h:88-92: entry of od_io_read(io, dest, n, t)
EnterIoRead(n, t) ==
  /\ pc' = "top"
  /\ size' = n
  /\ dpos' = 0
  /\ read_started' = FALSE
  /\ dest' = <<>>
  /\ time_ms' = t
  /\ rc' = 0

StartCall(h, n) ==
  [h EXCEPT !.n0 = n, !.taken0 = h.taken, !.waited = 0, !.cause = "none",
            !.stopped = FALSE, !.unread0 = od_readahead_unread(readahead),
            !.starved = (od_readahead_unread(readahead) = 0 /\ sent = rpos),
            !.signals = 0, !.filled = FALSE]

\* a copy that is not clamped to the bytes still wanted
to_read_unclamped(unread, sz) == unread

\* io.h:98-100
to_read(unread, sz) == IF unread > sz THEN sz ELSE unread

\* a self-signal on every iteration, also after read_start
SelfSignal_always(started) == TRUE

\* io.h:112: the self-signal is issued while read has not been started
SelfSignal(started) == ~started

\* io.h:95-113: head of the outer loop, up to the wait
IoTop ==
  /\ pc = "top"
  /\ LET unread == od_readahead_unread(readahead)
         n      == to_read(unread, size)
         sz     == IF unread > 0 THEN size - n ELSE size
         h      == IF unread > 0 THEN [hist EXCEPT !.taken = @ + n]
                                 ELSE [hist EXCEPT !.reuse_unread = unread]
     IN /\ IF unread > 0
             THEN /\ dest' = dest \o od_readahead_bytes(readahead, n)
                  /\ size' = size - n
                  /\ dpos' = dpos + n
                  /\ readahead' = od_readahead_pos_read_advance(readahead, n)
             ELSE /\ readahead' = od_readahead_reuse(readahead)
                  /\ UNCHANGED <<dest, size, dpos>>
        /\ IF sz = 0
             THEN pc' = "stop" /\ hist' = h /\ UNCHANGED signaled
             ELSE /\ pc' = "wait"
                  /\ IF SelfSignal(read_started)
                       THEN /\ signaled' = TRUE
                            /\ hist' = [h EXCEPT !.signals = IF @ = 0 THEN 1 ELSE 2]
                       ELSE /\ hist' = h
                            /\ UNCHANGED signaled
  /\ UNCHANGED <<sockVars, armed, errno_, intr, read_started, time_ms, rc, callerVars>>
  /\ UNCHANGED extVars

\* how long a wait that ends with a signal may have lasted
WaitTimes(t) == IF t = UINT32_MAX THEN {0} ELSE 0..t

\* time spent waiting in the current call; past TmoMs it is only "more"
Elapse(w, d) == Min(w + d, TmoMs + 1)

\* the timeout handed to machine_cond_wait (io.h:117)
WaitTimeout(t) == t

\* io.h:117: machine_cond_wait returns at once when the condition is signaled,
\* and parks the coroutine otherwise
IoWait ==
  /\ pc = "wait"
  /\ IF signaled
       THEN signaled' = FALSE /\ pc' = "raw"
       ELSE pc' = "parked" /\ UNCHANGED signaled
  /\ UNCHANGED <<sockVars, readahead, armed, errno_, intr, ioLocals, callerVars, hist>>
  /\ UNCHANGED extVars

\* a signal wakes the parked coroutine: machine_cond_wait returns 0
IoWake ==
  /\ pc = "parked"
  /\ signaled
  /\ signaled' = FALSE
  /\ pc' = "raw"
  /\ \E d \in WaitTimes(WaitTimeout(time_ms)) : hist' = [hist EXCEPT !.waited = Elapse(@, d)]
  /\ UNCHANGED <<sockVars, readahead, armed, errno_, intr, ioLocals, callerVars>>
  /\ UNCHANGED extVars

\* io.h:118-119: the wait's timer fires: machine_cond_wait returns -1
IoTimeout ==
  /\ pc = "parked"
  /\ ~signaled
  /\ WaitTimeout(time_ms) # UINT32_MAX
  /\ pc' = "ret"
  /\ rc' = -1
  /\ hist' = [hist EXCEPT !.waited = Elapse(@, WaitTimeout(time_ms)), !.cause = "timeout"]
  /\ UNCHANGED <<sockVars, readahead, signaled, armed, errno_, intr>>
  /\ UNCHANGED <<size, dpos, read_started, dest, time_ms, callerVars>>
  /\ UNCHANGED extVars

\* machine_read_raw(io, buf, left): one non-blocking read; [rc, err] pairs
machine_read_raw(left) ==
  LET pending == sent - rpos
      intrs == IF intr < MaxIntr /\ sock # "reset"
                 THEN {[rc |-> -1, err |-> "EINTR"]} ELSE {}
  IN IF sock = "reset"
       THEN {[rc |-> -1, err |-> "ECONNRESET"]}
            \cup (IF left = 0 THEN {[rc |-> 0, err |-> errno_]} ELSE {})
       ELSE intrs \cup
            (IF left = 0 THEN {[rc |-> 0, err |-> errno_]}
             ELSE IF pending > 0
               THEN {[rc |-> k, err |-> errno_] : k \in 1..Min(left, pending)}
             ELSE IF sock = "eof" THEN {[rc |-> 0, err |-> errno_]}
             ELSE {[rc |-> -1, err |-> "EAGAIN"]})

\* a raw read sized by the capacity instead of the free tail
ReadLen_whole(ra) == ra.size

\* io.h:122
ReadLen(ra) == od_readahead_left(ra)

\* a retry test that leaves EAGAIN out
Transient_noAgain(e) == e \in {"EWOULDBLOCK", "EINTR"}

\* io.h:128
Transient(e) == e \in {"EAGAIN", "EWOULDBLOCK", "EINTR"}

\* io.h:121-142: the raw read after a wake-up and what follows it
IoRaw ==
  /\ pc = "raw"
  /\ LET left == ReadLen(readahead)
     IN \E r \in machine_read_raw(left) :
        /\ errno_' = r.err
        /\ intr' = IF r.rc = -1 /\ r.err = "EINTR" THEN intr + 1 ELSE intr
        /\ IF r.rc <= 0
             THEN /\ UNCHANGED <<rpos, readahead>>
                  /\ IF Transient(r.err)
                       THEN IF ~read_started
                              THEN \E ok \in BOOLEAN :
                                     IF ok
                                       THEN /\ armed' = TRUE
                                            /\ read_started' = TRUE
                                            /\ pc' = "wait"
                                            /\ UNCHANGED <<rc, hist>>
                                       ELSE /\ pc' = "ret"
                                            /\ rc' = -1
                                            /\ hist' = [hist EXCEPT !.cause = "start"]
                                            /\ UNCHANGED <<armed, read_started>>
                              ELSE /\ pc' = "wait"
                                   /\ UNCHANGED <<armed, read_started, rc, hist>>
                       ELSE /\ pc' = "ret"
                            /\ rc' = -1
                            /\ hist' = [hist EXCEPT !.cause =
                                 IF r.rc = -1 THEN "error"
                                 ELSE IF left = 0 THEN "full" ELSE "eof"]
                            /\ UNCHANGED <<armed, read_started>>
             ELSE /\ readahead' = od_readahead_pos_advance(readahead,
                                     SubSeq(wire, rpos + 1, rpos + r.rc))
                  /\ rpos' = rpos + r.rc
                  /\ pc' = "top"
                  /\ hist' = [hist EXCEPT !.filled =
                                @ \/ (read_started /\ r.rc = left /\ rpos + r.rc < sent)]
                  /\ UNCHANGED <<armed, read_started, rc>>
  /\ UNCHANGED <<wire, sent, sock, signaled, size, dpos, dest, time_ms, callerVars>>
  /\ UNCHANGED extVars

\* io.h:146: read_stop is called when read has been started
NeedStop(started) == started

\* io.h:146-152: after the loop
IoStop ==
  /\ pc = "stop"
  /\ pc' = "ret"
  /\ IF NeedStop(read_started)
       THEN \E ok \in BOOLEAN :
              IF ok
                THEN /\ armed' = FALSE
                     /\ rc' = 0
                     /\ hist' = [hist EXCEPT !.stopped = TRUE]
                ELSE /\ rc' = -1
                     /\ hist' = [hist EXCEPT !.stopped = TRUE, !.cause = "stop"]
                     /\ UNCHANGED armed
       ELSE rc' = 0 /\ UNCHANGED <<armed, hist>>
  /\ UNCHANGED <<sockVars, readahead, signaled, errno_, intr>>
  /\ UNCHANGED <<size, dpos, read_started, dest, time_ms, callerVars>>
  /\ UNCHANGED extVars

\* ---------------------------------------------------------------- callers
\* the coroutine is between two calls
Idle ==
  /\ pc \in {"idle", "ret"}
  /\ op \in {"none", "io"} \/ phase = "done"
  /\ outcome # "ub"

\* a direct od_io_read(io, dest, n, t)
CallIoRead ==
  /\ Idle
  /\ calls < MaxCalls
  /\ \E n \in 0..MaxN, t \in Timeouts :
       /\ EnterIoRead(n, t)
       /\ hist' = StartCall(hist, n)
  /\ op' = "io"
  /\ phase' = "done"
  /\ calls' = calls + 1
  /\ UNCHANGED <<sockVars, readahead, signaled, armed, errno_, intr, header, msg, outcome>>
  /\ UNCHANGED extVars

\* big-endian uint32 of four bytes
kiwi_read32(b) == b[1] * 16777216 + b[2] * 65536 + b[3] * 256 + b[4]

\* length field of an ordinary message header {type:u8, length:u32_be}
kiwi_read_size(h) == kiwi_read32(SubSeq(h, 2, 5))

\* payload size of a startup packet: its length field less the field itself.
\* The uint32_t result wraps when the field is below 4; it is written here as
\* the int that od_io_read receives (a negative number then).
kiwi_read_startup_size(h) == kiwi_read32(h) - 4

\* io.h:190-193
VALID_LONG_MESSAGE_TYPE(id) == id \in {84, 68, 100, 86, 69, 78, 65, 66, 80, 81}

\* a validation without the exemption of the long message types
NotV3_noLong(type, sz) == sz < 4 \/ type < 32 \/ sz > 30000

\* io.h:207-210: the header is not a protocol v3 message
NotV3(type, sz) ==
  \/ sz < 4
  \/ type < 32
  \/ (sz > 30000 /\ ~VALID_LONG_MESSAGE_TYPE(type))

\* a payload size that still counts the length field
PayloadSize_whole(sz) == sz

\* io.h:221: size -= sizeof(uint32_t)
PayloadSize(sz) == sz - 4

\* io.h:224: machine_msg_create(sizeof(header) + size)
ReadMsgSize(sz) == 5 + sz

\* an allocation that leaves the header out
StartupMsgSize_noHeader(sz) == sz

\* io.h:168: machine_msg_create(sizeof(header) + size)
StartupMsgSize(sz) == 4 + sz

\* the size handed on as an int is negative, or the allocation size wraps
Overflows(hdrlen, sz) == sz < 0 \/ sz > 2147483647 - hdrlen


\* io.h:196-200: od_read(io, t) reads the 5-byte header
CallRead ==
  /\ Idle
  /\ calls < MaxCalls
  /\ \E t \in Timeouts : EnterIoRead(5, t)
  /\ op' = "read"
  /\ phase' = "hdr"
  /\ header' = <<>>
  /\ msg' = <<>>
  /\ outcome' = "none"
  /\ calls' = calls + 1
  /\ hist' = [StartCall(hist, 5) EXCEPT !.optaken0 = hist.taken, !.alloc = FALSE,
                                         !.reserve = 0]
  /\ UNCHANGED <<sockVars, readahead, signaled, armed, errno_, intr>>
  /\ UNCHANGED extVars

\* the frame of od_io_read is gone once its caller has used the result
LeaveIoRead ==
  /\ pc' = "idle"
  /\ size' = 0
  /\ dpos' = 0
  /\ read_started' = FALSE
  /\ dest' = <<>>
  /\ time_ms' = 0
  /\ rc' = 0

EndCall(h) ==
  [h EXCEPT !.n0 = 0, !.taken0 = 0, !.waited = 0, !.cause = "none",
            !.stopped = FALSE, !.unread0 = 0, !.starved = FALSE, !.signals = 0,
            !.filled = FALSE]

\* the caller returns NULL (or stops) with outcome o; reserved is the size
\* asked of machine_msg_create, -1 when the caller did not get that far
EndOp(o, reserved) ==
  /\ phase' = "done"
  /\ outcome' = o
  /\ msg' = <<>>
  /\ header' = IF rc = 0 THEN dest ELSE <<>>
  /\ hist' = [EndCall(hist) EXCEPT !.alloc = (reserved >= 0), !.reserve = Max(reserved, 0)]
  /\ LeaveIoRead

\* io.h:201-233: od_read after the header read returned
ReadHeader ==
  /\ op = "read" /\ phase = "hdr" /\ pc = "ret"
  /\ IF rc = -1
       THEN EndOp("io_error", -1)
       ELSE LET sz == kiwi_read_size(dest)
            IN IF NotV3(dest[1], sz)
                 THEN EndOp("rejected", -1)
                 ELSE IF Overflows(5, PayloadSize(sz))
                   THEN EndOp("ub", 0)
                   ELSE \E ok \in BOOLEAN :
                          IF ok
                            THEN /\ header' = dest
                                 /\ phase' = "payload"
                                 /\ EnterIoRead(PayloadSize(sz), time_ms)
                                 /\ hist' = [StartCall(hist, PayloadSize(sz))
                                               EXCEPT !.alloc = TRUE,
                                                      !.reserve = ReadMsgSize(PayloadSize(sz))]
                                 /\ UNCHANGED <<msg, outcome>>
                            ELSE EndOp("oom", ReadMsgSize(PayloadSize(sz)))
  /\ UNCHANGED <<sockVars, readahead, signaled, armed, errno_, intr, op, calls>>
  /\ UNCHANGED extVars

\* io.h:233-239 and io.h:177-183: the payload read returned
PayloadDone ==
  /\ op \in {"read", "startup"} /\ phase = "payload" /\ pc = "ret"
  /\ phase' = "done"
  /\ IF rc = -1
       THEN outcome' = "io_error" /\ msg' = <<>>
       ELSE outcome' = "msg" /\ msg' = header \o dest
  /\ hist' = EndCall(hist)
  /\ LeaveIoRead
  /\ UNCHANGED <<sockVars, readahead, signaled, armed, errno_, intr, op, calls, header>>
  /\ UNCHANGED extVars

\* io.h:156-160: od_read_startup(io, t) reads the 4-byte header
CallReadStartup ==
  /\ Idle
  /\ calls < MaxCalls
  /\ \E t \in Timeouts : EnterIoRead(4, t)
  /\ op' = "startup"
  /\ phase' = "hdr"
  /\ header' = <<>>
  /\ msg' = <<>>
  /\ outcome' = "none"
  /\ calls' = calls + 1
  /\ hist' = [StartCall(hist, 4) EXCEPT !.optaken0 = hist.taken, !.alloc = FALSE,
                                         !.reserve = 0]
  /\ UNCHANGED <<sockVars, readahead, signaled, armed, errno_, intr>>
  /\ UNCHANGED extVars

\* io.h:161-177: od_read_startup after the header read returned
StartupHeader ==
  /\ op = "startup" /\ phase = "hdr" /\ pc = "ret"
  /\ IF rc = -1
       THEN EndOp("io_error", -1)
       ELSE LET sz == kiwi_read_startup_size(dest)
            IN IF Overflows(4, sz)
                 THEN EndOp("ub", 0)
                 ELSE \E ok \in BOOLEAN :
                        IF ok
                          THEN /\ header' = dest
                               /\ phase' = "payload"
                               /\ EnterIoRead(sz, time_ms)
                               /\ hist' = [StartCall(hist, sz)
                                             EXCEPT !.alloc = TRUE,
                                                    !.reserve = StartupMsgSize(sz)]
                               /\ UNCHANGED <<msg, outcome>>
                          ELSE EndOp("oom", StartupMsgSize(sz))
  /\ UNCHANGED <<sockVars, readahead, signaled, armed, errno_, intr, op, calls>>
  /\ UNCHANGED extVars

\* ------------------------------------------------------------------ Spec
Next ==
  \/ PeerSend
  \/ PeerClose
  \/ PeerReset
  \/ CallIoRead
  \/ IoTop
  \/ IoWait
  \/ IoWake
  \/ IoTimeout
  \/ IoRaw
  \/ IoStop

Spec == Init /\ [][Next]_vars

NextFramer ==
  \/ PeerSend
  \/ PeerClose
  \/ PeerReset
  \/ CallRead
  \/ CallReadStartup
  \/ IoTop
  \/ IoWait
  \/ IoWake
  \/ IoTimeout
  \/ IoRaw
  \/ IoStop
  \/ ReadHeader
  \/ StartupHeader
  \/ PayloadDone

SpecFramer == InitFramer /\ [][NextFramer]_vars

\* ------------------------------------------------------------ od_io_read
unread == od_readahead_unread(readahead)

\* C1: od_io_read returns 0 only when exactly n bytes have been copied into
\* dest, and they are the next n bytes of the stream after those already
\* copied out, in stream order; at every moment the bytes copied out plus the
\* unread bytes of the readahead are the bytes taken from the socket, in
\* order (nothing lost, duplicated or reordered), and dest never receives
\* more than the n bytes asked for, whatever the raw reads return.
C1_ExactRead ==
  /\ rpos <= sent
  /\ hist.taken + unread = rpos
  /\ od_readahead_bytes(readahead, unread) = SubSeq(wire, hist.taken + 1, rpos)
  /\ pc # "idle" =>
       /\ Len(dest) <= hist.n0
       /\ dest = SubSeq(wire, hist.taken0 + 1, hist.taken0 + Len(dest))
       /\ hist.taken = hist.taken0 + Len(dest)
  /\ (pc = "ret" /\ rc = 0) =>
       /\ Len(dest) = hist.n0
       /\ dest = SubSeq(wire, hist.taken0 + 1, hist.taken0 + hist.n0)

\* C1 witness: a second call returned 3 bytes after a first call had taken
\* one, and it had to wait for the socket
C1_Witness ==
  /\ pc = "ret" /\ rc = 0 /\ calls = 2
  /\ hist.n0 = 3 /\ hist.taken0 = 1 /\ dest = <<2, 3, 4>>
  /\ read_started

\* C2: readahead equivalence: a call's outcome does not depend on the
\* capacity: it succeeds with the raw bytes of the stream, or it fails for a
\* reason of the socket or the timer (timeout, EOF, error, read_start or
\* read_stop failing), which an unbuffered read of the same bytes meets too;
\* it never fails because the readahead buffer is smaller than the request.
C2_ReadaheadEquivalence ==
  /\ (pc = "ret" /\ rc = 0) => dest = SubSeq(wire, hist.taken0 + 1, hist.taken0 + hist.n0)
  /\ (pc = "ret" /\ rc = -1) => hist.cause \in {"timeout", "eof", "error", "start", "stop"}

\* C3: the timeout bounds the whole call: the time spent in the waits of one
\* call with a finite timeout never exceeds that timeout.
C3_TimeoutBoundsCall ==
  (pc # "idle" /\ time_ms # UINT32_MAX) => hist.waited <= time_ms

\* C4: a call that fails by timeout leaves the stream position as it was
\* before the call: it has consumed no byte.
C4_FailedReadNoEffect ==
  (pc = "ret" /\ rc = -1 /\ hist.cause = "timeout") => hist.taken = hist.taken0

\* C8: the readahead positions stay ordered, 0 <= pos_read <= pos_write <= cap,
\* and reuse is only ever invoked with no unread byte.
C8_ReadaheadBounds ==
  /\ 0 <= readahead.pos_read
  /\ readahead.pos_read <= readahead.pos
  /\ readahead.pos <= readahead.size
  /\ Len(readahead.buf) = readahead.pos
  /\ hist.reuse_unread = 0

\* C8 witness: the second call reused a buffer that had been filled to its
\* capacity and drained
C8_Witness ==
  /\ calls = 2 /\ pc = "wait" /\ readahead.size >= 2
  /\ readahead.pos = 0 /\ readahead.pos_read = 0
  /\ rpos = readahead.size

\* C9: a return of od_io_read after read_start armed the handle is preceded
\* by a read_stop, on every path.
C9_StopBeforeReturn ==
  (pc = "ret" /\ read_started) => hist.stopped

\* C10 as claimed: with timeout 0 and no unread data a call (for at least one
\* byte) returns a failure, whatever the socket holds.
C10_ZeroTimeoutFails ==
  (pc = "ret" /\ time_ms = 0 /\ hist.n0 > 0 /\ hist.unread0 = 0) => rc = -1

\* C10 amended: with timeout 0, n > 0, no unread data, nothing pending on the
\* socket when the call is made and nothing arriving during it, the call
\* fails; on an open socket it is the timeout (or read_start failing).
C10_ZeroTimeoutQuiet ==
  (pc = "ret" /\ time_ms = 0 /\ hist.n0 > 0 /\ hist.starved) =>
    /\ rc = -1
    /\ sock = "open" => hist.cause \in {"timeout", "start"}

\* C10 witness: such a call timed out
C10_Witness ==
  /\ pc = "ret" /\ time_ms = 0 /\ hist.n0 > 0 /\ hist.starved
  /\ rc = -1 /\ hist.cause = "timeout"

\* ---------------------------------------------------------------- framer
\* the type byte and the length field of a 5-byte header
HdrType(h) == h[1]
HdrLen(h) == h[2] * 16777216 + h[3] * 65536 + h[4] * 256 + h[5]

LongTypes == {84, 68, 100, 86, 69, 78, 65, 66, 80, 81}   \* T D d V E N A B P Q

\* the headers the protocol rejects
Rejected(h) ==
  \/ HdrLen(h) < 4
  \/ HdrType(h) < 32
  \/ (HdrLen(h) > 30000 /\ HdrType(h) \notin LongTypes)

\* od_read has read a header and decided on it
HeaderDecided == op = "read" /\ phase \in {"payload", "done"} /\ Len(header) = 5

\* C5: once od_read has read a header, it rejects it (NULL at once, no message
\* allocated, no payload byte read) exactly when length < 4, or type < 0x20, or
\* length > 30000 with a type outside T D d V E N A B P Q; any other header
\* takes it on to the allocation and the payload read.  A 1 MiB 'D' is
\* accepted, a 1 MiB 'C' and an 'E' of length 3 are rejected.
C5_HeaderValidation ==
  HeaderDecided =>
    /\ (outcome = "rejected") <=> Rejected(header)
    /\ Rejected(header) =>
         /\ phase = "done" /\ msg = <<>>
         /\ ~hist.alloc
         /\ hist.taken = hist.optaken0 + 5
    /\ ~Rejected(header) =>
         /\ hist.alloc
         /\ phase = "payload" \/ outcome \in {"msg", "io_error", "oom", "ub"}
    /\ header = <<68, 0, 16, 0, 0>> => outcome # "rejected"
    /\ header = <<67, 0, 16, 0, 0>> => outcome = "rejected"
    /\ header = <<69, 0, 0, 0, 3>> => outcome = "rejected"

\* C5 witness: od_read accepted the header of a 1 MiB 'D' message and has read
\* a byte of its payload
C5_Witness ==
  /\ op = "read" /\ phase = "payload"
  /\ header = <<68, 0, 16, 0, 0>>
  /\ hist.n0 = 1048572 /\ dest = <<7>>

\* C6: a message returned by od_read is the next frame of the stream, byte
\* for byte: 5 + (L - 4) bytes, L >= 4 its length field, in a buffer of that
\* size, and od_read has consumed exactly those bytes, so that the next
\* od_read starts at the next frame.
C6_FramingRoundTrip ==
  (op = "read" /\ phase = "done" /\ outcome = "msg") =>
    LET at == hist.optaken0
        L  == HdrLen(SubSeq(wire, at + 1, at + 5))
    IN /\ L >= 4
       /\ Len(msg) = 5 + (L - 4)
       /\ hist.reserve = Len(msg)
       /\ msg = SubSeq(wire, at + 1, at + Len(msg))
       /\ hist.taken = at + Len(msg)

\* C6 witness: the second of two messages written back to back was returned
\* by the second od_read
C6_Witness ==
  /\ op = "read" /\ phase = "done" /\ outcome = "msg" /\ calls = 2
  /\ wire = <<67, 0, 0, 0, 4, 81, 0, 0, 0, 5, 9>>
  /\ hist.optaken0 = 5
  /\ msg = <<81, 0, 0, 0, 5, 9>>

\* C7: a message returned by od_read_startup is the L bytes of the stream that
\* start with its 4-byte big-endian length L, in a buffer of L bytes, and
\* od_read_startup has consumed exactly those L bytes.
C7_StartupPacket ==
  (op = "startup" /\ phase = "done" /\ outcome = "msg") =>
    LET at == hist.optaken0
        h  == SubSeq(wire, at + 1, at + 4)
        L  == h[1] * 16777216 + h[2] * 65536 + h[3] * 256 + h[4]
    IN /\ L >= 4
       /\ Len(msg) = L
       /\ hist.reserve = L
       /\ msg = SubSeq(wire, at + 1, at + L)
       /\ hist.taken = at + L

\* C7 witness: the 8-byte startup packet of protocol 3.0 was returned unchanged
C7_Witness ==
  /\ op = "startup" /\ phase = "done" /\ outcome = "msg"
  /\ msg = <<0, 0, 0, 8, 0, 3, 0, 0>>
  /\ hist.taken = 8

\* ------------------------------------------- od_io_read: waits and wake-ups
\* C17 as claimed: within one od_io_read call the read loop signals on_read
\* itself at most once, however many outer-loop iterations the call takes.
C17_SelfSignalOnce == hist.signals <= 1

\* C17 amended: an outer-loop iteration that still needs bytes signals on_read
\* itself exactly when read_start has not been called yet in this call (so a
\* call may do it more than once), and never after read_start.
C17_SelfSignalUntilStarted ==
  [][(pc = "top" /\ pc' = "wait") =>
       IF read_started
         THEN signaled' = signaled /\ hist'.signals = hist.signals
         ELSE signaled' /\ hist'.signals >= 1]_vars

\* C17 witness: a call signalled itself on two iterations, then started the
\* read, and goes to wait
C17_Witness == pc = "wait" /\ read_started /\ hist.signals = 2

\* C18: when machine_read_raw returns 0 at the end of the stream (the peer
\* has closed, nothing is pending, the raw read had room) before the n bytes
\* are delivered, od_io_read returns -1 from that very step, whatever errno
\* the earlier raw reads left.
C18_EofFailsAtOnce ==
  [][(/\ pc = "raw"
      /\ sock = "eof"
      /\ sent = rpos
      /\ od_readahead_left(readahead) >= 1
      /\ intr' = intr) => (pc' = "ret" /\ rc' = -1)]_vars

\* C19: every machine_read_raw issued by od_io_read is handed a free tail of
\* at least one byte.
C19_RawReadHasRoom == pc = "raw" => od_readahead_left(readahead) >= 1

\* C20: a call with an infinite timeout, to which the peer has sent the bytes
\* it asks for and will send no more, on an open socket, is never left
\* parked with no signal pending after a raw read that followed read_start
\* has filled the readahead while bytes remained on the socket.
C20_NoLostWakeup ==
  (/\ op = "io"
   /\ time_ms = UINT32_MAX
   /\ sock = "open"
   /\ sent = Len(wire)
   /\ sent - hist.taken0 >= hist.n0
   /\ hist.filled) => ~(pc = "parked" /\ ~signaled)

\* ------------------------------------------------ life of a framed stream
\* where od_io_prepare may stop: at od_readahead_prepare (io.h:52-54), at
\* either machine_cond_create (io.h:55-60), or nowhere
PrepareOutcomes == {"readahead", "on_read", "on_write", "ok"}

\* how a read on a prepared stream may end
ReadOutcomes == {"ok", "failed", "cancelled"}

\* io.h:22-29
od_io_init(s) ==
  /\ od_io[s].stage = "new"
  /\ od_io' = [od_io EXCEPT ![s] = [@ EXCEPT !.stage = "init", !.io = NULL,
                                               !.on_read = NULL, !.on_write = NULL,
                                               !.readahead = "init"]]
  /\ UNCHANGED <<heap, freed, ioVars, clockVars, schedVars, testVars>>

\* io.h:47-62: od_io_prepare(io, io_obj, readahead) with io_obj the handle s
od_io_prepare(s) ==
  /\ od_io[s].stage = "init"
  /\ \E r \in PrepareOutcomes :
       LET has_buf   == r # "readahead"
           has_read  == r \in {"on_write", "ok"}
           has_write == r = "ok"
       IN /\ od_io' = [od_io EXCEPT ![s] =
                         [@ EXCEPT !.stage = "prepared",
                                   !.io = s,
                                   !.readahead = IF has_buf THEN "live" ELSE @,
                                   !.on_read = IF has_read THEN OnRead(s) ELSE @,
                                   !.on_write = IF has_write THEN OnWrite(s) ELSE @,
                                   !.prepared = r]]
          /\ heap' = [heap EXCEPT !.cond =
                        [c \in CondObjs |->
                           IF (c = OnRead(s) /\ has_read) \/ (c = OnWrite(s) /\ has_write)
                             THEN "live" ELSE @[c]]]
  /\ UNCHANGED <<freed, ioVars, clockVars, schedVars, testVars>>

\* a read on the stream has ended (io.h:87-153); one that failed or was
\* cancelled after machine_read_start returns without machine_read_stop
\* (io.h:119, io.h:138) and may leave the handle armed
StreamRead(s) ==
  /\ od_io[s].stage = "prepared"
  /\ od_io[s].prepared = "ok"
  /\ od_io[s].io # NULL
  /\ \E r \in ReadOutcomes, started \in BOOLEAN :
       /\ od_io' = [od_io EXCEPT ![s].read = r]
       /\ heap' = [heap EXCEPT !.handle[s].armed = (r # "ok" /\ started)]
  /\ UNCHANGED <<freed, ioVars, clockVars, schedVars, testVars>>

\* io.h:64-73: od_io_close closes and frees the handle, and forgets it
od_io_close(s) ==
  /\ od_io[s].stage \in {"init", "prepared"}
  /\ IF od_io[s].io = NULL
       THEN UNCHANGED <<od_io, heap>>
       ELSE /\ heap' = [heap EXCEPT !.handle[od_io[s].io] =
                          [closed |-> TRUE, freed |-> TRUE, armed |-> FALSE]]
            /\ od_io' = [od_io EXCEPT ![s].io = NULL]
  /\ UNCHANGED <<freed, ioVars, clockVars, schedVars, testVars>>

\* an od_io_free that closes the handle as od_io_close does
od_io_free_heap_closing(o, h) ==
  [h EXCEPT !.cond = [c \in CondObjs |->
                        IF c # NULL /\ c \in {o.on_read, o.on_write} THEN "freed" ELSE @[c]],
            !.handle = [x \in StreamIds |->
                          IF x = o.io
                            THEN [closed |-> TRUE, freed |-> TRUE, armed |-> FALSE]
                            ELSE @[x]]]

\* io.h:34-38: the objects od_io_free destroys: the conditions that are not NULL
od_io_free_heap(o, h) ==
  [h EXCEPT !.cond = [c \in CondObjs |->
                        IF c # NULL /\ c \in {o.on_read, o.on_write} THEN "freed" ELSE @[c]]]

\* io.h:31-39
od_io_free(s) ==
  /\ od_io[s].stage \in {"init", "prepared"}
  /\ freed' = [freed EXCEPT ![s] = [handle |-> heap.handle[s], io |-> od_io[s].io]]
  /\ heap' = od_io_free_heap(od_io[s], heap)
  /\ od_io' = [od_io EXCEPT ![s] = [@ EXCEPT !.stage = "freed", !.readahead = "freed"]]
  /\ UNCHANGED <<ioVars, clockVars, schedVars, testVars>>

NextLife ==
  \/ \E s \in StreamIds : od_io_init(s)
  \/ \E s \in StreamIds : od_io_prepare(s)
  \/ \E s \in StreamIds : StreamRead(s)
  \/ \E s \in StreamIds : od_io_close(s)
  \/ \E s \in StreamIds : od_io_free(s)

\* streams that are initialised, prepared, read, closed and freed
SpecLife == InitRuntime /\ [][NextLife]_vars

\* C12: once od_io_free has run on a stream, the readahead is released and
\* every condition od_io_prepare created for it is destroyed, the conditions
\* of the other streams are untouched, and the I/O handle is as it was before
\* the call (not closed, not freed, armed or not as before) and still
\* referenced by io->io; after a full od_io_prepare, after one that failed
\* at any step, and after a read that failed or was cancelled.
C12_FreeLeavesHandle ==
  \A s \in StreamIds :
    od_io[s].stage = "freed" =>
      /\ heap.handle[s] = freed[s].handle
      /\ od_io[s].io = freed[s].io
      /\ od_io[s].readahead = "freed"
      /\ heap.cond[OnRead(s)] # "live"
      /\ heap.cond[OnWrite(s)] # "live"
      /\ od_io[s].prepared = "ok" =>
           heap.cond[OnRead(s)] = "freed" /\ heap.cond[OnWrite(s)] = "freed"
      /\ \A t \in StreamIds \ {s} :
           (od_io[t].stage = "prepared" /\ od_io[t].prepared = "ok") =>
             heap.cond[OnRead(t)] = "live" /\ heap.cond[OnWrite(t)] = "live"

\* C12 witness: one stream freed after a cancelled read that left its open
\* handle armed, another freed after od_io_prepare failed at on_write
C12_Witness ==
  \E s, t \in StreamIds :
    /\ od_io[s].stage = "freed" /\ od_io[s].read = "cancelled"
    /\ od_io[s].io = s /\ heap.handle[s].armed /\ ~heap.handle[s].closed
    /\ od_io[t].stage = "freed" /\ od_io[t].prepared = "on_write"
    /\ od_io[t].io = t /\ heap.cond[OnRead(t)] = "freed"

\* ------------------------------------------------------------------ clock
\* the timers of a clock, as a set
InClock(c) == {c.timers[i] : i \in 1..Len(c.timers)}

\* an order on timers that looks at the deadline only
mm_clock_cmp_deadline(a, b) == a.deadline_ms < b.deadline_ms

\* the order the clock keeps its timers in: by deadline, then by seq
mm_clock_cmp(a, b) ==
  \/ a.deadline_ms < b.deadline_ms
  \/ (a.deadline_ms = b.deadline_ms /\ a.seq < b.seq)

\* mm_clock_timer_add (mm_clock.h:22) of timer id with the given interval:
\* the timer takes the next seq and the deadline time + interval, and is put
\* in its place in the order; [clock, timer]
mm_clock_timer_add(c, tm, id, interval) ==
  LET t     == [deadline_ms |-> c.time + interval, seq |-> c.timers_seq, active |-> TRUE]
      first == SelectSeq(c.timers, LAMBDA e : mm_clock_cmp(tm[e], t))
      last  == SelectSeq(c.timers, LAMBDA e : ~mm_clock_cmp(tm[e], t))
  IN [clock |-> [c EXCEPT !.timers = first \o <<id>> \o last,
                          !.timers_count = @ + 1,
                          !.timers_seq = @ + 1],
      timer |-> [tm EXCEPT ![id] = t]]

\* mm_clock_timer_del (mm_clock.h:23): an inactive timer is left alone
mm_clock_timer_del(c, tm, id) ==
  IF ~tm[id].active
    THEN [clock |-> c, timer |-> tm]
    ELSE [clock |-> [c EXCEPT !.timers = SelectSeq(@, LAMBDA e : e # id),
                              !.timers_count = @ - 1],
          timer |-> [tm EXCEPT ![id] = TimerOff]]

\* a timer is due only after its deadline has passed
Expired_after(t, now) == t.deadline_ms < now

\* a timer is due when its deadline is not after the clock's time
Expired(t, now) == t.deadline_ms <= now

\* mm_clock_step (mm_clock.h:21): the timers at the head of the order that
\* are due are fired in that order and leave the clock; [clock, timer, fired]
mm_clock_step(c, tm) ==
  LET hit == Cardinality({i \in 1..Len(c.timers) :
                            \A j \in 1..i : Expired(tm[c.timers[j]], c.time)})
      fired == SubSeq(c.timers, 1, hit)
  IN [clock |-> [c EXCEPT !.timers = SubSeq(@, hit + 1, Len(@)),
                          !.timers_count = @ - hit],
      timer |-> [id \in TimerIds |->
                   IF \E i \in 1..hit : fired[i] = id THEN TimerOff ELSE tm[id]],
      fired |-> fired]

\* mm_clock_timer_min (mm_clock.h:24-25): the first timer, NULL when none
mm_clock_timer_min(c) == IF c.timers_count = 0 THEN NULL ELSE c.timers[1]

\* the timers of a clock with their keys
Snapshot(c, tm) ==
  {[id |-> id, deadline_ms |-> tm[id].deadline_ms, seq |-> tm[id].seq] : id \in InClock(c)}

ClockTimerAdd ==
  /\ clock.timers_seq < MaxSeq
  /\ \E id \in TimerIds, interval \in 0..MaxInterval :
       /\ ~timer[id].active
       /\ LET r == mm_clock_timer_add(clock, timer, id, interval)
          IN /\ clock' = r.clock
             /\ timer' = r.timer
             /\ clk' = [clk EXCEPT !.op = "add", !.arg = id,
                                   !.before = Snapshot(clock, timer),
                                   !.fired = <<>>, !.ret = 0,
                                   !.seqs = Append(@, r.timer[id].seq)]
  /\ UNCHANGED <<ioVars, lifeVars, schedVars, testVars>>

ClockTimerDel ==
  /\ \E id \in TimerIds :
       LET r == mm_clock_timer_del(clock, timer, id)
       IN /\ clock' = r.clock
          /\ timer' = r.timer
          /\ clk' = [clk EXCEPT !.op = "del", !.arg = id,
                                !.before = Snapshot(clock, timer),
                                !.fired = <<>>, !.ret = 0]
  /\ UNCHANGED <<ioVars, lifeVars, schedVars, testVars>>

\* the clock's time is refreshed from the monotonic clock, then the due
\* timers are fired
ClockStep ==
  /\ \E now \in clock.time..MaxTime :
       LET r == mm_clock_step([clock EXCEPT !.time = now], timer)
       IN /\ clock' = r.clock
          /\ timer' = r.timer
          /\ clk' = [clk EXCEPT !.op = "step", !.arg = 0,
                                !.before = Snapshot(clock, timer),
                                !.fired = r.fired, !.ret = Len(r.fired)]
  /\ UNCHANGED <<ioVars, lifeVars, schedVars, testVars>>

NextClock ==
  \/ ClockTimerAdd
  \/ ClockTimerDel
  \/ ClockStep

\* one clock under any sequence of add, del and step
SpecClock == InitRuntime /\ [][NextClock]_vars

\* key (deadline, seq) of a is before that of b
KeyBefore(a, b) ==
  a.deadline_ms < b.deadline_ms \/ (a.deadline_ms = b.deadline_ms /\ a.seq < b.seq)

\* the timers that were in the clock before the last operation and are due at time now
Due(now) == {b \in clk.before : b.deadline_ms <= now}

\* C13: after mm_clock_step the timers fired are exactly those that were in
\* the clock with a deadline <= the refreshed time, each once, in increasing
\* (deadline, seq) order (equal deadlines in insertion order); the value
\* returned is their number; the clock keeps exactly the timers whose
\* deadline is greater than its time.
C13_StepFiresDue ==
  clk.op = "step" =>
    /\ {clk.fired[i] : i \in 1..Len(clk.fired)} = {b.id : b \in Due(clock.time)}
    /\ Len(clk.fired) = Cardinality(Due(clock.time))
    /\ clk.ret = Cardinality(Due(clock.time))
    /\ \A i, j \in 1..Len(clk.fired) :
         i < j => \E a, b \in clk.before :
                    a.id = clk.fired[i] /\ b.id = clk.fired[j] /\ KeyBefore(a, b)
    /\ InClock(clock) = {b.id : b \in clk.before \ Due(clock.time)}
    /\ \A id \in InClock(clock) : timer[id].deadline_ms > clock.time

\* C13 witness: a step fired two timers with the same deadline and left a later one
C13_Witness ==
  /\ clk.op = "step"
  /\ Len(clk.fired) = 2
  /\ timer[clk.fired[1]].deadline_ms = timer[clk.fired[2]].deadline_ms
  /\ clock.timers_count = 1

\* C14: mm_clock_timer_min is NULL exactly when the clock holds no timer, and
\* otherwise a timer of the clock whose (deadline, seq) no other timer of the
\* clock precedes; every timer in the clock is active and every inactive
\* (never added, deleted or fired) timer is out of it; a timer just deleted
\* or fired is out of it; the seq values issued are strictly increasing.
C14_ClockInvariants ==
  /\ (mm_clock_timer_min(clock) = NULL) <=> (InClock(clock) = {})
  /\ InClock(clock) # {} =>
       /\ mm_clock_timer_min(clock) \in InClock(clock)
       /\ \A id \in InClock(clock) \ {mm_clock_timer_min(clock)} :
            KeyBefore(timer[mm_clock_timer_min(clock)], timer[id])
  /\ \A id \in TimerIds : timer[id].active <=> id \in InClock(clock)
  /\ clock.timers_count = Cardinality(InClock(clock))
  /\ Len(clock.timers) = clock.timers_count
  /\ clk.op = "del" => clk.arg \notin InClock(clock)
  /\ clk.op = "step" => \A i \in 1..Len(clk.fired) : clk.fired[i] \notin InClock(clock)
  /\ \A i, j \in 1..Len(clk.seqs) : i < j => clk.seqs[i] < clk.seqs[j]

\* C14 witness: after three adds and a step, a del took one of three timers
\* out and the clock holds two timers with one deadline
C14_Witness ==
  /\ clk.op = "del"
  /\ Cardinality(clk.before) = 3
  /\ clock.timers_count = 2
  /\ Len(clk.seqs) = MaxSeq
  /\ timer[clock.timers[1]].deadline_ms = timer[clock.timers[2]].deadline_ms
  /\ clock.time > 0

\* -------------------------------------------------------------- scheduler
\* One worker: coroutines CoIds, conditions CondIds, the clock.  The timer of
\* coroutine w's timed wait is timer w.  A coroutine runs from its resumption
\* to its next suspension point without interleaving.

\* machine_cond_signal(c): a waiter is made runnable and leaves the slot;
\* with no waiter the signal is remembered;  st = [sched, co, cond, sk]
machine_cond_signal(c, st) ==
  LET w == st.cond[c].waiter
  IN IF w # 0
       THEN [st EXCEPT !.cond[c].waiter = 0,
                       !.co[w].state = "runnable",
                       !.co[w].result = "ok",
                       !.sched.runnable = Append(@, w),
                       !.sk.chain[c] = 0]
       ELSE [st EXCEPT !.cond[c].signaled = TRUE,
                       !.sk.sigs[c] = IF @ = 0 THEN 1 ELSE 2,
                       !.sk.chain[c] = 0]

\* a wait that returns at once on a signal and leaves the signal in place
machine_cond_wait_sticky(cd) ==
  IF cd.signaled THEN [park |-> FALSE, signaled |-> TRUE]
                 ELSE [park |-> TRUE, signaled |-> FALSE]

\* machine_cond_wait on condition record cd: whether the caller parks, and
\* the condition's flag afterwards (io.h:117 is such a wait)
machine_cond_wait(cd) ==
  IF cd.signaled THEN [park |-> FALSE, signaled |-> FALSE]
                 ELSE [park |-> TRUE, signaled |-> FALSE]

\* a timer callback that wakes its coroutine whatever its state
TimerCallback_unchecked(w, st) ==
  [st EXCEPT !.co[w].state = "runnable",
             !.co[w].result = "timeout",
             !.sched.runnable = Append(@, w)]

\* the callback of coroutine w's timer: if w is still parked on its
\* condition it leaves the waiter slot and is made runnable with a timeout
TimerCallback(w, st) ==
  IF st.co[w].state = "parked" /\ st.cond[st.co[w].on].waiter = w
    THEN [st EXCEPT !.cond[st.co[w].on].waiter = 0,
                    !.co[w].state = "runnable",
                    !.co[w].result = "timeout",
                    !.sched.runnable = Append(@, w)]
    ELSE st

\* the callbacks of the fired timers, in the order they fired
RECURSIVE FireAll(_, _)
FireAll(fired, st) ==
  IF fired = <<>> THEN st
  ELSE FireAll(Tail(fired), TimerCallback(Head(fired), st))

SchedState == [sched |-> sched, co |-> co, cond |-> cond, sk |-> sk]

SetSched(st) ==
  /\ sched' = st.sched
  /\ co' = st.co
  /\ cond' = st.cond
  /\ sk' = st.sk

\* dispatch: the head of the runnable queue is resumed; a coroutine coming
\* back from a wait removes its timer from the clock
SchedResume ==
  /\ sched.current = 0
  /\ sched.runnable # <<>>
  /\ LET w == Head(sched.runnable)
         r == mm_clock_timer_del(clock, timer, w)
     IN /\ sched' = [current |-> w, runnable |-> Tail(sched.runnable)]
        /\ co' = [co EXCEPT ![w] = [state |-> "running", on |-> 0, result |-> "none"]]
        /\ IF co[w].on # 0
             THEN clock' = r.clock /\ timer' = r.timer
             ELSE UNCHANGED <<clock, timer>>
  /\ UNCHANGED <<cond, sk, clk, ioVars, lifeVars, testVars>>

\* the running coroutine signals a condition
CoSignal ==
  /\ sched.current # 0
  /\ \E c \in CondIds : SetSched(machine_cond_signal(c, SchedState))
  /\ UNCHANGED <<clockVars, ioVars, lifeVars, testVars>>

\* the running coroutine waits on a condition no one is waiting on, with a
\* timeout; when it parks with a finite timeout its timer enters the clock
CoWait ==
  /\ sched.current # 0
  /\ \E c \in CondIds, t \in Timeouts :
       LET w == sched.current
           r == machine_cond_wait(cond[c])
           a == mm_clock_timer_add(clock, timer, w, t)
           k == [sk EXCEPT !.sigs[c] = 0,
                           !.chain[c] = IF ~r.park /\ sk.sigs[c] = 2 THEN 1
                                        ELSE IF r.park /\ @ = 1 THEN 2 ELSE 0]
       IN /\ cond[c].waiter = 0
          /\ t # UINT32_MAX => clock.timers_seq < MaxSeq
          /\ sk' = k
          /\ IF r.park
               THEN /\ cond' = [cond EXCEPT ![c] = [signaled |-> r.signaled, waiter |-> w]]
                    /\ co' = [co EXCEPT ![w] = [state |-> "parked", on |-> c,
                                                result |-> "none"]]
                    /\ sched' = [sched EXCEPT !.current = 0]
                    /\ IF t # UINT32_MAX
                         THEN clock' = a.clock /\ timer' = a.timer
                         ELSE UNCHANGED <<clock, timer>>
               ELSE /\ cond' = [cond EXCEPT ![c].signaled = r.signaled]
                    /\ UNCHANGED <<sched, co, clock, timer>>
  /\ UNCHANGED <<clk, ioVars, lifeVars, testVars>>

\* the running coroutine yields: it goes to the tail of the runnable queue
CoYield ==
  /\ sched.current # 0
  /\ sched' = [current |-> 0, runnable |-> Append(sched.runnable, sched.current)]
  /\ co' = [co EXCEPT ![sched.current].state = "runnable"]
  /\ UNCHANGED <<cond, sk, clockVars, ioVars, lifeVars, testVars>>

\* the running coroutine returns from its entry function
CoFinish ==
  /\ sched.current # 0
  /\ sched' = [sched EXCEPT !.current = 0]
  /\ co' = [co EXCEPT ![sched.current].state = "finished"]
  /\ UNCHANGED <<cond, sk, clockVars, ioVars, lifeVars, testVars>>

\* a poller event: the scheduler signals the condition of a ready handle
SchedPoll ==
  /\ sched.current = 0
  /\ \E c \in CondIds : SetSched(machine_cond_signal(c, SchedState))
  /\ UNCHANGED <<clockVars, ioVars, lifeVars, testVars>>

\* the scheduler advances the clock: the due timers fire and their
\* callbacks run in that order
SchedClockStep ==
  /\ sched.current = 0
  /\ \E now \in clock.time..MaxTime :
       LET r == mm_clock_step([clock EXCEPT !.time = now], timer)
       IN /\ clock' = r.clock
          /\ timer' = r.timer
          /\ clk' = [clk EXCEPT !.op = "step", !.fired = r.fired, !.ret = Len(r.fired)]
          /\ SetSched(FireAll(r.fired, SchedState))
  /\ UNCHANGED <<ioVars, lifeVars, testVars>>

NextSched ==
  \/ SchedResume
  \/ CoSignal
  \/ CoWait
  \/ CoYield
  \/ CoFinish
  \/ SchedPoll
  \/ SchedClockStep

\* one worker's scheduler with its coroutines, conditions and clock
SpecSched == InitRuntime /\ [][NextSched]_vars

\* C15: a signal on a condition no one waits on is remembered (signaled
\* holds exactly while signals are outstanding); a coroutine parks on a
\* condition only when no signal is remembered, and it is then the waiter;
\* a remembered signal, or several of them, is cleared only by a wait that
\* returns at once: the caller keeps running, nobody is parked, and no
\* signal is left for the next wait.
C15_OneShot ==
  /\ [](\A c \in CondIds :
         /\ cond[c].signaled <=> sk.sigs[c] > 0
         /\ cond[c].signaled => cond[c].waiter = 0
         /\ cond[c].waiter # 0 =>
              co[cond[c].waiter].state = "parked" /\ co[cond[c].waiter].on = c)
  /\ [][\A c \in CondIds :
         /\ (cond[c].waiter = 0 /\ cond'[c].waiter # 0) =>
              /\ ~cond[c].signaled
              /\ sk.sigs[c] = 0
              /\ cond'[c].waiter = sched.current
              /\ sched'.current = 0
         /\ (cond[c].signaled /\ ~cond'[c].signaled) =>
              /\ sched.current # 0
              /\ sched'.current = sched.current
              /\ cond'[c].waiter = 0
              /\ sk'.sigs[c] = 0]_vars

\* C15 witness: two signals were remembered as one, the next wait consumed
\* them and returned at once, and the wait after it, with no new signal, parked
C15_Witness ==
  \E c \in CondIds :
    /\ sk.chain[c] = 2
    /\ cond[c].waiter # 0
    /\ ~cond[c].signaled

\* the places a coroutine is in: entries of the runnable queue, waiter slots,
\* the finished state, the processor
Places(w) ==
  Cardinality({i \in 1..Len(sched.runnable) : sched.runnable[i] = w})
  + Cardinality({c \in CondIds : cond[c].waiter = w})
  + (IF co[w].state = "finished" THEN 1 ELSE 0)
  + (IF sched.current = w THEN 1 ELSE 0)

ByteX == 120

\* chunk k written by the server of worker w
Chunk(w, k) == [from |-> w, idx |-> k, byte |-> ByteX]

\* a worker together with the port it uses
Pair(w) == [w |-> worker[w], p |-> port[PortOf(w)], id |-> w, failed |-> FALSE]

\* test_tls_read_multithread.c:10-69, from the server's current call on, as
\* far as it gets without suspending
RECURSIVE ServerRun(_)
ServerRun(d) ==
  CASE d.w.server = "new" ->
         IF d.p.bound
           THEN [d EXCEPT !.w.server = "failed", !.failed = TRUE]
           ELSE ServerRun([d EXCEPT !.p.bound = TRUE, !.p.listen = TRUE,
                                    !.w.server = "accept"])
    [] d.w.server = "accept" ->
         IF d.p.syn THEN ServerRun([d EXCEPT !.p.syn = FALSE, !.w.server = "tls"])
         ELSE d
    [] d.w.server = "tls" ->
         IF d.p.hello THEN ServerRun([d EXCEPT !.p.reply = TRUE, !.w.server = "write"])
         ELSE d
    [] d.w.server = "write" ->
         IF d.w.pos >= Chunks
           THEN [d EXCEPT !.w.server = "done", !.p.closed = TRUE]
           ELSE IF Len(d.p.pipe) < PipeCap
             THEN ServerRun([d EXCEPT !.p.pipe = Append(@, Chunk(d.id, d.w.pos + 1)),
                                      !.w.pos = @ + 1])
             ELSE d
    [] OTHER -> d

\* test_tls_read_multithread.c:72-119, likewise for the client
RECURSIVE ClientRun(_)
ClientRun(d) ==
  CASE d.w.client = "new" ->
         IF ~d.p.listen
           THEN [d EXCEPT !.w.client = "failed", !.failed = TRUE]
           ELSE [d EXCEPT !.p.syn = TRUE, !.w.client = "connect"]
    [] d.w.client = "connect" ->
         ClientRun([d EXCEPT !.p.hello = TRUE, !.w.client = "tls"])
    [] d.w.client = "tls" ->
         IF d.p.reply THEN ClientRun([d EXCEPT !.w.client = "read"]) ELSE d
    [] d.w.client = "read" ->
         LET all == d.w.got \o d.p.pipe
         IN IF Len(all) >= Chunks
              THEN [d EXCEPT !.w.got = all, !.p.pipe = <<>>,
                             !.w.client = IF \A i \in 1..Len(all) : all[i].byte = ByteX
                                            THEN "done" ELSE "failed",
                             !.failed = \E i \in 1..Len(all) : all[i].byte # ByteX]
              ELSE IF d.p.closed
                THEN [d EXCEPT !.w.got = all, !.p.pipe = <<>>,
                               !.w.client = "failed", !.failed = TRUE]
                ELSE [d EXCEPT !.w.got = all, !.p.pipe = <<>>]
    [] OTHER -> d

\* the call a parked coroutine is in can go on
Ready(w, c) ==
  LET p == port[PortOf(w)]
  IN IF c = "server"
       THEN \/ worker[w].server = "accept" /\ p.syn
            \/ worker[w].server = "tls" /\ p.hello
            \/ worker[w].server = "write" /\ Len(p.pipe) < PipeCap
       ELSE \/ worker[w].client = "connect"
            \/ worker[w].client = "tls" /\ p.reply
            \/ worker[w].client = "read" /\ (p.pipe # <<>> \/ p.closed)

SetPair(w, d) ==
  /\ worker' = [worker EXCEPT ![w] = d.w]
  /\ port' = [port EXCEPT ![PortOf(w)] = d.p]
  /\ host' = [host EXCEPT !.failed = @ \/ d.failed]

\* test_tls_read_multithread.c:143-148: the next worker is created
HostCreate ==
  /\ ~host.failed
  /\ host.i < Pairs
  /\ worker' = [worker EXCEPT ![host.i].created = TRUE]
  /\ host' = [host EXCEPT !.i = @ + 1]
  /\ UNCHANGED <<port, ioVars, lifeVars, clockVars, schedVars>>

\* test_tls_read_multithread.c:150-154: machine_wait on the next worker returns
HostWait ==
  /\ ~host.failed
  /\ host.i = Pairs
  /\ host.j < Pairs
  /\ worker[host.j].exited
  /\ host' = [host EXCEPT !.j = @ + 1]
  /\ UNCHANGED <<worker, port, ioVars, lifeVars, clockVars, schedVars>>

\* test_tls_read_multithread.c:122-131: test_cs creates the server, then the client
WorkerMain(w) ==
  /\ ~host.failed
  /\ worker[w].created
  /\ worker[w].main = "new"
  /\ worker' = [worker EXCEPT ![w] = [@ EXCEPT !.main = "done", !.server = "new",
                                               !.client = "new",
                                               !.run = <<"server", "client">>]]
  /\ UNCHANGED <<port, host, ioVars, lifeVars, clockVars, schedVars>>

\* the scheduler resumes the first runnable coroutine, which runs until it suspends
WorkerRun(w) ==
  /\ ~host.failed
  /\ worker[w].run # <<>>
  /\ LET d == [Pair(w) EXCEPT !.w.run = Tail(@)]
     IN IF Head(worker[w].run) = "server"
          THEN SetPair(w, ServerRun(d))
          ELSE SetPair(w, ClientRun(d))
  /\ UNCHANGED <<ioVars, lifeVars, clockVars, schedVars>>

\* nothing is runnable: the poller reports the parked coroutines that can go on
WorkerPoll(w) ==
  /\ ~host.failed
  /\ worker[w].run = <<>>
  /\ \E q \in {<<"server">>, <<"client">>, <<"server", "client">>, <<"client", "server">>} :
       /\ \A i \in 1..Len(q) : Ready(w, q[i])
       /\ \A c \in {"server", "client"} : Ready(w, c) => \E i \in 1..Len(q) : q[i] = c
       /\ worker' = [worker EXCEPT ![w].run = q]
  /\ UNCHANGED <<port, host, ioVars, lifeVars, clockVars, schedVars>>

\* no coroutine is left: the worker's thread ends
WorkerExit(w) ==
  /\ ~host.failed
  /\ ~worker[w].exited
  /\ worker[w].main = "done"
  /\ worker[w].server = "done"
  /\ worker[w].client = "done"
  /\ worker' = [worker EXCEPT ![w].exited = TRUE]
  /\ UNCHANGED <<port, host, ioVars, lifeVars, clockVars, schedVars>>

WorkerStep(w) == WorkerMain(w) \/ WorkerRun(w) \/ WorkerPoll(w) \/ WorkerExit(w)

NextTest ==
  \/ HostCreate
  \/ HostWait
  \/ \E w \in WorkerIds : WorkerMain(w)
  \/ \E w \in WorkerIds : WorkerRun(w)
  \/ \E w \in WorkerIds : WorkerPoll(w)
  \/ \E w \in WorkerIds : WorkerExit(w)

\* the main thread and every worker thread keep being scheduled
FairTest ==
  /\ WF_vars(HostCreate)
  /\ WF_vars(HostWait)
  /\ \A w \in WorkerIds : WF_vars(WorkerStep(w))

SpecTest == InitRuntime /\ [][NextTest]_vars /\ FairTest

\* the chunks worker w's server writes, in order
Written(w, n) == [k \in 1..n |-> Chunk(w, k)]

\* C11: whatever the interleaving of the workers, no test() fails, what a
\* client has read is at every moment the first chunks its own server wrote,
\* in order, a client that is done has read all of them, and eventually
\* machine_wait has returned for every worker.
C11_PairsFinish ==
  /\ [](/\ ~host.failed
        /\ \A w \in WorkerIds :
             /\ Len(worker[w].got) <= worker[w].pos
             /\ worker[w].got = Written(w, Len(worker[w].got))
             /\ worker[w].client = "done" => worker[w].got = Written(w, Chunks)
             /\ worker[w].exited => worker[w].client = "done")
  /\ <>(host.j = Pairs)

\* C11 witness: every worker has been joined, each client holding the whole
\* of its own server's data
C11_Witness ==
  /\ host.j = Pairs
  /\ \A w \in WorkerIds :
       worker[w].exited /\ worker[w].got = Written(w, Chunks) /\ worker[w].pos = Chunks

====
